---- MODULE Spec2Model ----
(***************************************************************************)
(* One peer of the Custom-AI-Blockchain network: its chain (Blockchain),   *)
(* the tasks that use it (the mining loop of peer1.go, the read loops of   *)
(* PeerNetwork, a further caller of the exported AddBlock), the IPFS store *)
(* it writes to, and the messages it reads from and writes to its peers.   *)
(*                                                                         *)
(* sha256 is modelled as a collision-free function: a digest is            *)
(* represented by its pre-image <<index, timestamp, transactions,          *)
(* prev_hash, nonce>>, and the number of leading '0' characters of its hex *)
(* form is a fixed function of the pre-image (LeadingZeros).               *)
(***************************************************************************)
EXTENDS Integers, Sequences, FiniteSets, TLC

\* ---------------------------------------------------------------- bounds
\* The largest number of leading zeros a digest of the model has.
MaxZeros == 4
\* time.Now().Unix() as this peer reads it and as the other peers read it:
\* the blocks made here are stamped LocalTime, those made elsewhere RemoteTime.
LocalTime == 1
RemoteTime == 2
\* The mining loop and the other AddBlock caller stop at this chain length.
MaxChain == 3

\* NewBlockchain(4, ...) in peer1.go.
Difficulty == 4

\* ConnectToPeersWithRetry(peerAddresses, 10) in peer1.go.
MaxRetries == 10

Times == {LocalTime, RemoteTime}

\* The Go empty string, as the prev_hash of a genesis block.
EmptyString == <<>>

\* The absent error (nil) and the errors AddBlock returns.
NoError == "nil"
ErrPrevHash == "invalid previous hash"
ErrProofOfWork == "invalid block proof of work"
ErrStore == "failed to store block in IPFS"
ErrPin == "failed to pin block in IPFS"
ErrBackup == "failed to backup blockchain to IPFS"
ErrBackupPin == "failed to pin blockchain backup"
ErrRetrieve == "Error retrieving blockchain from IPFS"
ErrRestore == "failed to restore blockchain from IPFS"

\* ------------------------------------------------------------ ledger core
\* The transactions read from transactions.csv (amounts as whole numbers).
Transactions == << [Sender |-> "Alice", Receiver |-> "Bob", Amount |-> 500, Timestamp |-> 0],
                   [Sender |-> "Bob", Receiver |-> "Charlie", Amount |-> 1500, Timestamp |-> 0] >>

\* The label the validator is trained on: valid unless amount > 1000 or <= 0.
MLAccepts(tx) == ~(tx.Amount > 1000 \/ tx.Amount <= 0)

ValidateTransactionsML(txs) == SelectSeq(txs, MLAccepts)

RECURSIVE SumAmounts(_)
SumAmounts(txs) == IF txs = <<>> THEN 0 ELSE Head(txs).Amount + SumAmounts(Tail(txs))

\* The digest of a block: the sha256 of the JSON of its five hashed fields.
CalculateHash(b) == <<b.Index, b.Timestamp, b.Transactions, b.PrevHash, b.Nonce>>

\* The number of leading '0' characters of a digest.
LeadingZeros(h) ==
    IF h = EmptyString THEN 0
    ELSE (h[1] + 2 * h[2] + SumAmounts(h[3]) + Len(h[3])
          + (IF h[4] = EmptyString THEN 0 ELSE 3 + h[4][2] + h[4][5]) + h[5]) % (MaxZeros + 1)

\* strings.HasPrefix(hash, strings.Repeat("0", d))
HasZeroPrefix(h, d) == LeadingZeros(h) >= d

RECURSIVE Mine(_)
Mine(b) ==
    LET hashed == [b EXCEPT !.Hash = CalculateHash(b)]
    IN  IF HasZeroPrefix(hashed.Hash, b.Difficulty) THEN hashed
        ELSE Mine([b EXCEPT !.Nonce = b.Nonce + 1])

CreateBlock(index, now, transactions, prevHash, difficulty) ==
    Mine([Index |-> index, Timestamp |-> now, Transactions |-> transactions,
          PrevHash |-> prevHash, Hash |-> EmptyString, Nonce |-> 0,
          Difficulty |-> difficulty])

\* ValidateBlock without the comparison against the target.
ValidateBlockNoTarget(b) == CalculateHash(b) = b.Hash

\* ValidateBlock without the recomputation of the hash.
ValidateBlockStoredHash(b) == HasZeroPrefix(b.Hash, b.Difficulty)

\* Block.ValidateBlock
ValidateBlock(b) ==
    /\ CalculateHash(b) = b.Hash
    /\ HasZeroPrefix(b.Hash, b.Difficulty)

\* ------------------------------------------------------------ chain store
Last(s) == s[Len(s)]

\* IsValid without the call of ValidateBlock.
IsValidLinksOnly(blocks) ==
    \A i \in 2..Len(blocks) : blocks[i].PrevHash = blocks[i - 1].Hash

\* Blockchain.IsValid, on a block sequence.
IsValid(blocks) ==
    \A i \in 2..Len(blocks) :
        /\ blocks[i].PrevHash = blocks[i - 1].Hash
        /\ ValidateBlock(blocks[i])

\* ------------------------------------------------------------- the tasks
\* The connections of the peer: one it dials, one it accepts.  Each has a read
\* loop (handleMessages), named after the connection.
Conns == {"out", "in"}

\* The connections ConnectToPeersWithRetry dials, one per configured address
\* other than its own.
Dialed == {"out", "out3"}

\* The address a dialed connection is registered under (peerAddresses).
DialAddress(c) == IF c = "out3" THEN "localhost:9003" ELSE "localhost:9002"

\* conn.RemoteAddr().String(): the resolved IP:port of the other end.
RemoteAddr(c) ==
    CASE c = "out" -> "127.0.0.1:9002"
      [] c = "out3" -> "127.0.0.1:9003"
      [] OTHER -> "127.0.0.1:50001"

MyAddress == "localhost:9001"

\* Tasks that call the exported AddBlock directly, two at a time.
Callers == {"caller1", "caller2"}

\* The goroutine of main that backs the chain up periodically.
Backup == "backup"

Tasks == {"miner", Backup} \cup Conns \cup Dialed \cup Callers

NoTask == "none"

NoBlock == [Index |-> -1, Timestamp |-> 0, Transactions |-> <<>>, PrevHash |-> EmptyString,
            Hash |-> EmptyString, Nonce |-> 0, Difficulty |-> 0]

\* ------------------------------------------------------------ the messages
\* A JSON value on the wire, and the Go value json.Decoder makes of it when the
\* target is an interface{} (BlockchainMessage.Content).
JObject(v) == [kind |-> "object", val |-> v]
JString(v) == [kind |-> "string", val |-> v]
JNull == [kind |-> "null", val |-> <<>>]

\* json.Marshal of a *Block, a *Transaction, a *Blockchain and a string.
BlockJSON(b) == JObject([index |-> b.Index, timestamp |-> b.Timestamp,
                         transactions |-> b.Transactions, prev_hash |-> b.PrevHash,
                         hash |-> b.Hash, nonce |-> b.Nonce, difficulty |-> b.Difficulty])
TransactionJSON(tx) == JObject([sender |-> tx.Sender, receiver |-> tx.Receiver,
                                amount |-> tx.Amount, timestamp |-> tx.Timestamp])
ChainJSON(blocks, difficulty) ==
    JObject([Blocks |-> [i \in 1..Len(blocks) |-> BlockJSON(blocks[i]).val],
             Difficulty |-> difficulty, MLValidator |-> <<>>])

\* The dynamic type of the interface{} value decoded from a JSON value.
DecodedType(j) ==
    CASE j.kind = "object" -> "map[string]interface {}"
      [] j.kind = "string" -> "string"
      [] j.kind = "number" -> "float64"
      [] OTHER -> "nil"

\* The type assertions of handleMessage: message.Content.(T).
AssertType(j, T) == DecodedType(j) = T

BlockchainMessage(type, content, from, to) ==
    [Type |-> type, Content |-> content, From |-> from, To |-> to]

NoMsg == [Type |-> "none", Content |-> JNull, From |-> "", To |-> ""]

OtherPeer == "localhost:9002"

\* The typed decoding of a block (json.Unmarshal into a Block).
BlockOfJSON(v) == [Index |-> v.index, Timestamp |-> v.timestamp, Transactions |-> v.transactions,
                   PrevHash |-> v.prev_hash, Hash |-> v.hash, Nonce |-> v.nonce,
                   Difficulty |-> v.difficulty]

\* ------------------------------------------------------------- the store
\* StoreBlockchain's blob: json.Marshal(blockchain.Blocks).  The store is
\* content-addressed, so the content ID of a blob is modelled by the blob.
ChainBlob(blocks) == [i \in 1..Len(blocks) |-> BlockJSON(blocks[i]).val]

\* RetrieveBlockchain's result when the store answers: the blob unmarshalled.
RetrieveBlockchain(cid) == [i \in 1..Len(cid) |-> BlockOfJSON(cid[i])]

\* ------------------------------------------------------------ the inputs
\* The longest chain another peer sends or backs up.
MaxRemoteLen == 2

\* A chain built by sequential appends, all blocks stamped ts.
RECURSIVE GoodChain(_, _)
GoodChain(ts, n) ==
    IF n = 1 THEN << CreateBlock(0, ts, <<>>, EmptyString, Difficulty) >>
    ELSE LET rest == GoodChain(ts, n - 1)
         IN  Append(rest, CreateBlock(Last(rest).Index + 1, ts,
                                      ValidateTransactionsML(Transactions),
                                      Last(rest).Hash, Difficulty))

\* A block whose stored hash is not the hash of its contents.
WrongHash(b) == [b EXCEPT !.Hash = CalculateHash([b EXCEPT !.Nonce = b.Nonce + 1])]

\* A block hashed at nonce 0, without the search for the target.
Unmined(b) == LET z == [b EXCEPT !.Nonce = 0] IN [z EXCEPT !.Hash = CalculateHash(z)]

\* A mined block that names no predecessor.
Unlinked(b) == CreateBlock(b.Index, b.Timestamp, b.Transactions, EmptyString, b.Difficulty)

ReplaceLast(blocks, b) == [blocks EXCEPT ![Len(blocks)] = b]

\* The chains other peers send in BLOCKCHAIN_RESPONSE or announce as backups.
RemoteChains ==
    UNION { { GoodChain(ts, n),
              ReplaceLast(GoodChain(ts, n), WrongHash(Last(GoodChain(ts, n)))),
              ReplaceLast(GoodChain(ts, n), Unlinked(Last(GoodChain(ts, n)))) }
            : ts \in {RemoteTime}, n \in 2..MaxRemoteLen }

\* A first block that is no genesis block: a later index, transactions, a
\* predecessor, and the hash b was stored with.
ForgedGenesis(b) ==
    [b EXCEPT !.Index = 1, !.Transactions = Transactions, !.PrevHash = b.Hash]

\* A chain built by sequential appends whose blocks after the first carry
\* difficulty 0, so that Mine returned at nonce 0.
RECURSIVE EasyChain(_, _)
EasyChain(ts, n) ==
    IF n = 1 THEN << CreateBlock(0, ts, <<>>, EmptyString, Difficulty) >>
    ELSE LET rest == EasyChain(ts, n - 1)
         IN  Append(rest, CreateBlock(Last(rest).Index + 1, ts,
                                      ValidateTransactionsML(Transactions),
                                      Last(rest).Hash, 0))

\* The same block mined with the next index.
Renumbered(b) == CreateBlock(b.Index + 1, b.Timestamp, b.Transactions, b.PrevHash, b.Difficulty)

\* The chains other peers announce as backups, with those of peers that do
\* not run this program.
BackupChains ==
    RemoteChains \cup
    UNION { { GoodChain(ts, n),
              [GoodChain(ts, n) EXCEPT ![1] = ForgedGenesis(GoodChain(ts, n)[1])],
              ReplaceLast(GoodChain(ts, n), Renumbered(Last(GoodChain(ts, n)))),
              EasyChain(ts, n) }
            : ts \in Times, n \in 2..MaxRemoteLen }

\* The blocks other peers send in NEW_BLOCK when the local chain is blocks.
PeerBlocks(blocks) ==
    LET prev == IF blocks = <<>> THEN EmptyString ELSE Last(blocks).Hash
        good == CreateBlock(Len(blocks), RemoteTime, ValidateTransactionsML(Transactions),
                            prev, Difficulty)
    IN  {good, WrongHash(good), Unlinked(good)}

\* The blocks that reach a peer in a flood: those of PeerBlocks and, sent back
\* by the peers it broadcast them to, the blocks of its own chain.
FloodBlocks(blocks) == PeerBlocks(blocks) \cup {blocks[i] : i \in 1..Len(blocks)}

\* -------------------------------------------------------------- the state
VARIABLES
    Blocks,        \* bc.Blocks of the Blockchain made in main
    mutex,         \* bc.mutex: the task holding the write lock, or NoTask
    pc,            \* where each task is
    block,         \* per task, the block argument of its AddBlock call
    ret,           \* per task, what its last AddBlock call returned
    hash,          \* per read loop, the content ID it is restoring from; for Backup, the one it stored
    Peers,         \* pn.Peers: address -> connection
    isConnected,   \* pn.isConnected: the addresses mapped to true
    connOpen,      \* the connections this peer has not closed
    retryCount,    \* per dialing goroutine, its retryCount
    sends,         \* the goroutines BroadcastMessage started, not yet run
    decoded,       \* the message the step just taken decoded, with its connection
    written,       \* the messages the step just taken wrote, with their connections
    storeOps,      \* the calls the step just taken made on the IPFS node
    storeErr       \* the failure of the IPFS node the step just taken returned or printed

vars == <<Blocks, mutex, pc, block, ret, hash,
          Peers, isConnected, connOpen, retryCount, sends, decoded, written, storeOps, storeErr>>

chainVars == <<Blocks, mutex>>
netVars == <<Peers, isConnected, connOpen, retryCount>>

NoDecoded == [conn |-> NoTask, msg |-> NoMsg]

\* A step that reads no message and writes to no connection.
Silent == decoded' = NoDecoded /\ written' = <<>>

\* A step that makes no call on the IPFS node.
NoStore == storeOps' = <<>> /\ storeErr' = NoError

\* A step that does none of these.
Quiet == Silent /\ NoStore

\* The calls on the IPFS node, as the step that makes them records them.
StoreCall(op, arg, ok) == [op |-> op, arg |-> arg, ok |-> ok]

\* A nil dereference in the mining goroutine ends the process.  A read loop
\* that rebinds pn.blockchain leaves the handlers with another Blockchain
\* object than the one made in main: the model ends there too.
Running == \A t \in Tasks : pc[t] \notin {"panic", "rebound"}

EmptyMap == [a \in {} |-> NoTask]

\* NewBlockchain: the genesis block goes through AddBlock, whose error is dropped.
NewBlockchain(now, putOk, pinOk) ==
    LET genesisBlock == CreateBlock(0, now, <<>>, EmptyString, Difficulty)
    IN  /\ Blocks = IF putOk /\ pinOk THEN <<genesisBlock>> ELSE <<>>
        /\ mutex = NoTask

Init ==
    /\ \E now \in {LocalTime}, putOk \in BOOLEAN, pinOk \in BOOLEAN :
          NewBlockchain(now, putOk, pinOk)
    /\ pc = [t \in Tasks |-> IF t = "miner" THEN "mine" ELSE IF t \in Callers THEN "off" ELSE "none"]
    /\ block = [t \in Tasks |-> NoBlock]
    /\ ret = [t \in Tasks |-> NoError]
    /\ hash = [t \in Conns \cup {Backup} |-> <<>>]
    /\ Peers = EmptyMap
    /\ isConnected = {}
    /\ connOpen = {}
    /\ retryCount = [c \in Dialed |-> 0]
    /\ sends = {}
    /\ decoded = NoDecoded
    /\ written = <<>>
    /\ storeOps = <<>>
    /\ storeErr = NoError

\* ------------------------------------------------------------- AddBlock
\* A mining loop that broadcasts whatever AddBlock returned.
AfterAddBlockBroadcasts(t, err) ==
    IF t \in Callers THEN "returned" ELSE "broadcast"

\* Where a task goes on when its AddBlock call returns err: the mining loop
\* and handleMessage broadcast the block on success.
AfterAddBlock(t, err) ==
    IF t \in Callers THEN "returned"
    ELSE IF err = NoError THEN "broadcast"
    ELSE IF t = "miner" THEN "mine" ELSE "read"

\* return err, with the deferred bc.mutex.Unlock().
AddBlockReturn(t, err) ==
    /\ mutex' = NoTask
    /\ ret' = [ret EXCEPT ![t] = err]
    /\ pc' = [pc EXCEPT ![t] = AfterAddBlock(t, err)]

\* AddBlock without bc.mutex.Lock().
AddBlockLockNoMutex(t) ==
    /\ Running
    /\ pc[t] = "AddBlockLock"
    /\ mutex' = t
    /\ pc' = [pc EXCEPT ![t] = "AddBlockCheck"]
    /\ Quiet
    /\ UNCHANGED <<Blocks, block, ret, hash, netVars, sends>>

\* bc.mutex.Lock()
AddBlockLock(t) ==
    /\ Running
    /\ pc[t] = "AddBlockLock"
    /\ mutex = NoTask
    /\ mutex' = t
    /\ pc' = [pc EXCEPT ![t] = "AddBlockCheck"]
    /\ Quiet
    /\ UNCHANGED <<Blocks, block, ret, hash, netVars, sends>>

\* AddBlock without the comparison of PrevHash.
AddBlockCheckNoLinkage(t) ==
    /\ Running
    /\ pc[t] = "AddBlockCheck"
    /\ IF Len(Blocks) > 0 /\ ~ValidateBlock(block[t])
         THEN AddBlockReturn(t, ErrProofOfWork)
         ELSE /\ pc' = [pc EXCEPT ![t] = "AddBlockStore"]
              /\ UNCHANGED <<mutex, ret>>
    /\ Quiet
    /\ UNCHANGED <<Blocks, block, hash, netVars, sends>>

\* The linkage and proof-of-work checks of a non-empty chain.
AddBlockCheck(t) ==
    /\ Running
    /\ pc[t] = "AddBlockCheck"
    /\ IF Len(Blocks) > 0 /\ block[t].PrevHash # Last(Blocks).Hash
         THEN AddBlockReturn(t, ErrPrevHash)
       ELSE IF Len(Blocks) > 0 /\ ~ValidateBlock(block[t])
         THEN AddBlockReturn(t, ErrProofOfWork)
       ELSE /\ pc' = [pc EXCEPT ![t] = "AddBlockStore"]
            /\ UNCHANGED <<mutex, ret>>
    /\ Quiet
    /\ UNCHANGED <<Blocks, block, hash, netVars, sends>>

\* StoreBlock and Pin: an error of either is returned.
AddBlockStore(t) ==
    /\ Running
    /\ pc[t] = "AddBlockStore"
    /\ LET blob == BlockJSON(block[t]).val
       IN  \E addOk \in BOOLEAN, pinOk \in BOOLEAN :
             IF ~addOk
               THEN /\ storeOps' = << StoreCall("Add", blob, FALSE) >>
                    /\ storeErr' = ErrStore
                    /\ AddBlockReturn(t, ErrStore)
               ELSE /\ storeOps' = << StoreCall("Add", blob, TRUE), StoreCall("Pin", blob, pinOk) >>
                    /\ storeErr' = IF pinOk THEN NoError ELSE ErrPin
                    /\ IF pinOk
                         THEN /\ pc' = [pc EXCEPT ![t] = "AddBlockAppend"]
                              /\ UNCHANGED <<mutex, ret>>
                         ELSE AddBlockReturn(t, ErrPin)
    /\ Silent
    /\ UNCHANGED <<Blocks, block, hash, netVars, sends>>

\* bc.Blocks = append(bc.Blocks, block); return nil
AddBlockAppend(t) ==
    /\ Running
    /\ pc[t] = "AddBlockAppend"
    /\ Blocks' = Append(Blocks, block[t])
    /\ AddBlockReturn(t, NoError)
    /\ Quiet
    /\ UNCHANGED <<block, hash, netVars, sends>>

\* ---------------------------------------------------------- the mining loop
\* GetLatestBlock and CreateBlock of one round of the loop.
MineBlock ==
    /\ Running
    /\ pc["miner"] = "mine"
    /\ mutex = NoTask
    /\ Len(Blocks) < MaxChain
    /\ Len(ValidateTransactionsML(Transactions)) > 0
    /\ IF Blocks = <<>>
         THEN /\ pc' = [pc EXCEPT !["miner"] = "panic"]
              /\ UNCHANGED block
         ELSE \E now \in {LocalTime} :
                /\ block' = [block EXCEPT !["miner"] =
                               CreateBlock(Last(Blocks).Index + 1, now,
                                           ValidateTransactionsML(Transactions),
                                           Last(Blocks).Hash, Difficulty)]
                /\ pc' = [pc EXCEPT !["miner"] = "AddBlockLock"]
    /\ Quiet
    /\ UNCHANGED <<chainVars, ret, hash, netVars, sends>>

\* BroadcastMessage: one goroutine per registered connection.
BroadcastMessage(content) == sends' = sends \cup {[conn |-> Peers[a], msg |-> content] : a \in DOMAIN Peers}

\* BroadcastNewBlock, by the mining loop or by a read loop that added a block.
BroadcastNewBlock(t) ==
    /\ Running
    /\ pc[t] = "broadcast"
    /\ BroadcastMessage(BlockchainMessage("NEW_BLOCK", BlockJSON(block[t]), MyAddress, ""))
    /\ pc' = [pc EXCEPT ![t] = IF t = "miner" THEN "mine" ELSE "read"]
    /\ block' = [block EXCEPT ![t] = NoBlock]
    /\ Quiet
    /\ UNCHANGED <<chainVars, ret, hash, netVars>>

\* A send whose error ends all the sends of BroadcastMessage still pending.
SendOneAbortsOnError(s) ==
    /\ Running
    /\ s \in sends
    /\ sends' = IF s.conn \in connOpen THEN sends \ {s} ELSE {}
    /\ written' = IF s.conn \in connOpen THEN <<s>> ELSE <<>>
    /\ decoded' = NoDecoded
    /\ NoStore
    /\ UNCHANGED <<chainVars, pc, block, ret, hash, netVars>>

\* One goroutine of BroadcastMessage encodes its message onto its connection;
\* an error (the connection is closed) is printed.
SendOne(s) ==
    /\ Running
    /\ s \in sends
    /\ sends' = sends \ {s}
    /\ written' = IF s.conn \in connOpen THEN <<s>> ELSE <<>>
    /\ decoded' = NoDecoded
    /\ NoStore
    /\ UNCHANGED <<chainVars, pc, block, ret, hash, netVars>>

SendRun == \E s \in sends : SendOne(s)

\* ------------------------------------------------------- the connections
Register(address, c) ==
    /\ Peers' = [a \in DOMAIN Peers \cup {address} |-> IF a = address THEN c ELSE Peers[a]]
    /\ isConnected' = isConnected \cup {address}

\* A failed dial that marks the address connected all the same.
DialFailRegisters(c) ==
    /\ Running
    /\ c \in Dialed
    /\ pc[c] = "none"
    /\ DialAddress(c) \notin isConnected
    /\ retryCount' = [retryCount EXCEPT ![c] = retryCount[c] + 1]
    /\ pc' = [pc EXCEPT ![c] = IF retryCount'[c] <= MaxRetries THEN "none" ELSE "gaveUp"]
    /\ Register(DialAddress(c), c)
    /\ Quiet
    /\ UNCHANGED <<chainVars, block, ret, hash, connOpen, sends>>

\* ConnectToPeersWithRetry: a dial that fails counts; the goroutine sleeps and
\* dials again while retryCount <= maxRetries, and ends otherwise.
DialFail(c) ==
    /\ Running
    /\ c \in Dialed
    /\ pc[c] = "none"
    /\ DialAddress(c) \notin isConnected
    /\ retryCount' = [retryCount EXCEPT ![c] = retryCount[c] + 1]
    /\ pc' = [pc EXCEPT ![c] = IF retryCount'[c] <= MaxRetries THEN "none" ELSE "gaveUp"]
    /\ Quiet
    /\ UNCHANGED <<chainVars, block, ret, hash, Peers, isConnected, connOpen, sends>>

\* ConnectToPeersWithRetry: a dial that succeeds registers the connection
\* under the configured address and starts its read loop.
DialConnect(c) ==
    /\ Running
    /\ c \in Dialed
    /\ pc[c] = "none"
    /\ DialAddress(c) \notin isConnected
    /\ Register(DialAddress(c), c)
    /\ connOpen' = connOpen \cup {c}
    /\ pc' = [pc EXCEPT ![c] = "read"]
    /\ Quiet
    /\ UNCHANGED <<chainVars, block, ret, hash, retryCount, sends>>

\* handleConnection: an accepted connection is registered under its remote
\* address unless that address has an entry, and its read loop starts.
HandleConnection(c) ==
    /\ Running
    /\ c \notin Dialed
    /\ pc[c] = "none"
    /\ IF RemoteAddr(c) \notin DOMAIN Peers
         THEN Register(RemoteAddr(c), c)
         ELSE UNCHANGED <<Peers, isConnected>>
    /\ connOpen' = connOpen \cup {c}
    /\ pc' = [pc EXCEPT ![c] = "read"]
    /\ Quiet
    /\ UNCHANGED <<chainVars, block, ret, hash, retryCount, sends>>

\* A deferred function that deletes the entry and leaves isConnected as it is.
ReadLoopEndKeepsFlag(c) ==
    /\ Running
    /\ pc[c] = "read"
    /\ connOpen' = connOpen \ {c}
    /\ Peers' = [a \in DOMAIN Peers \ {RemoteAddr(c)} |-> Peers[a]]
    /\ pc' = [pc EXCEPT ![c] = "done"]
    /\ Quiet
    /\ UNCHANGED <<chainVars, block, ret, hash, isConnected, retryCount, sends>>

\* handleMessages: Decode fails; the deferred function closes the connection
\* and removes the entry of its remote address.
ReadLoopEnd(c) ==
    /\ Running
    /\ pc[c] = "read"
    /\ connOpen' = connOpen \ {c}
    /\ Peers' = [a \in DOMAIN Peers \ {RemoteAddr(c)} |-> Peers[a]]
    /\ isConnected' = isConnected \ {RemoteAddr(c)}
    /\ pc' = [pc EXCEPT ![c] = "done"]
    /\ Quiet
    /\ UNCHANGED <<chainVars, block, ret, hash, retryCount, sends>>

\* ------------------------------------------------------------ handleMessage
\* handleMessage reads pn.blockchain.Blocks without bc.mutex.  A read that
\* overlaps the append of AddBlock is a data race on the slice: it yields the
\* old slice, the new slice, or the slice with its new length and the last
\* element not yet stored (append writes the length before the element).
UnwrittenElement == NoBlock

UnlockedBlocks ==
    {Blocks} \cup UNION { {Append(Blocks, block[t]), Append(Blocks, UnwrittenElement)}
                         : t \in {u \in Tasks : pc[u] = "AddBlockAppend"} }

\* len(pn.blockchain.Blocks), read the same way.
UnlockedLen == {Len(blocks) : blocks \in UnlockedBlocks}

Decoded(c, m) == decoded' = [conn |-> c, msg |-> m]

\* A handler that forwards every NEW_BLOCK it decodes, added or not.
HandleNewBlockRelays(c, blocks) ==
    /\ Running
    /\ pc[c] = "read"
    /\ \E b \in blocks :
         LET message == BlockchainMessage("NEW_BLOCK", BlockJSON(b), OtherPeer, "")
         IN  /\ Decoded(c, message)
             /\ block' = [block EXCEPT ![c] = BlockOfJSON(message.Content.val)]
             /\ pc' = [pc EXCEPT ![c] = "broadcast"]
    /\ written' = <<>>
    /\ NoStore
    /\ UNCHANGED <<chainVars, ret, hash, netVars, sends>>

\* case MessageTypeNewBlock, for a message that carries one of blocks.
HandleNewBlockOf(c, blocks) ==
    /\ Running
    /\ pc[c] = "read"
    /\ \E b \in blocks :
         LET message == BlockchainMessage("NEW_BLOCK", BlockJSON(b), OtherPeer, "")
         IN  /\ Decoded(c, message)
             /\ IF AssertType(message.Content, "*Block")
                  THEN /\ block' = [block EXCEPT ![c] = BlockOfJSON(message.Content.val)]
                       /\ pc' = [pc EXCEPT ![c] = "AddBlockLock"]
                  ELSE UNCHANGED <<block, pc>>
    /\ written' = <<>>
    /\ NoStore
    /\ UNCHANGED <<chainVars, ret, hash, netVars, sends>>

HandleNewBlock(c) == HandleNewBlockOf(c, PeerBlocks(Blocks))

\* case MessageTypeNewTx
HandleNewTx(c) ==
    /\ Running
    /\ pc[c] = "read"
    /\ \E i \in 1..Len(Transactions) :
         LET message == BlockchainMessage("NEW_TRANSACTION", TransactionJSON(Transactions[i]),
                                          OtherPeer, "")
         IN  /\ Decoded(c, message)
             /\ IF AssertType(message.Content, "*Transaction")
                  THEN BroadcastMessage(BlockchainMessage("NEW_TRANSACTION", message.Content,
                                                          MyAddress, ""))
                  ELSE UNCHANGED sends
    /\ written' = <<>>
    /\ NoStore
    /\ UNCHANGED <<chainVars, pc, block, ret, hash, netVars>>

\* case MessageTypeBlockchain: the reply is encoded onto the same connection.
HandleBlockchainRequest(c) ==
    /\ Running
    /\ pc[c] = "read"
    /\ \E blocks \in UnlockedBlocks :
         LET message == BlockchainMessage("BLOCKCHAIN_REQUEST", JNull, OtherPeer, "")
             response == BlockchainMessage("BLOCKCHAIN_RESPONSE", ChainJSON(blocks, Difficulty),
                                           MyAddress, message.From)
         IN  /\ Decoded(c, message)
             /\ written' = << [conn |-> c, msg |-> response] >>
    /\ NoStore
    /\ UNCHANGED <<chainVars, pc, block, ret, hash, netVars, sends>>

\* case MessageTypeBlockchainResponse: pn.blockchain = blockchain assigns the
\* field of the PeerNetwork and leaves the Blockchain made in main as it is.
HandleBlockchainResponse(c) ==
    /\ Running
    /\ pc[c] = "read"
    /\ \E remote \in RemoteChains, length \in UnlockedLen :
         LET message == BlockchainMessage("BLOCKCHAIN_RESPONSE", ChainJSON(remote, Difficulty),
                                          OtherPeer, MyAddress)
         IN  /\ Decoded(c, message)
             /\ IF /\ AssertType(message.Content, "*Blockchain")
                   /\ Len(remote) > length
                   /\ IsValid(remote)
                  THEN pc' = [pc EXCEPT ![c] = "rebound"]
                  ELSE UNCHANGED pc
    /\ written' = <<>>
    /\ NoStore
    /\ UNCHANGED <<chainVars, block, ret, hash, netVars, sends>>

\* case MessageTypeIPFSBackup: fetch the announced chain, one of chains, and
\* compare lengths.
HandleIPFSBackupOf(c, chains) ==
    /\ Running
    /\ pc[c] = "read"
    /\ \E remote \in chains, isString \in BOOLEAN, length \in UnlockedLen, catOk \in BOOLEAN :
         LET content == IF isString THEN JString(ChainBlob(remote)) ELSE JNull
             message == BlockchainMessage("IPFS_BACKUP", content, OtherPeer, "")
         IN  /\ Decoded(c, message)
             /\ storeOps' = IF AssertType(content, "string")
                              THEN << StoreCall("Cat", content.val, catOk) >> ELSE <<>>
             /\ storeErr' = IF AssertType(content, "string") /\ ~catOk
                              THEN ErrRetrieve ELSE NoError
             /\ IF /\ AssertType(content, "string")
                   /\ catOk
                   /\ Len(RetrieveBlockchain(content.val)) > length
                  THEN /\ pc' = [pc EXCEPT ![c] = "RestoreLock"]
                       /\ hash' = [hash EXCEPT ![c] = content.val]
                  ELSE UNCHANGED <<pc, hash>>
    /\ written' = <<>>
    /\ UNCHANGED <<chainVars, block, ret, netVars, sends>>

HandleIPFSBackup(c) == HandleIPFSBackupOf(c, RemoteChains)

\* RestoreFromIPFS without bc.mutex.Lock().
RestoreLockNoMutex(c) ==
    /\ Running
    /\ pc[c] = "RestoreLock"
    /\ mutex' = c
    /\ pc' = [pc EXCEPT ![c] = "RestoreFromIPFS"]
    /\ Quiet
    /\ UNCHANGED <<Blocks, block, ret, hash, netVars, sends>>

\* RestoreFromIPFS: bc.mutex.Lock()
RestoreLock(c) ==
    /\ Running
    /\ pc[c] = "RestoreLock"
    /\ mutex = NoTask
    /\ mutex' = c
    /\ pc' = [pc EXCEPT ![c] = "RestoreFromIPFS"]
    /\ Quiet
    /\ UNCHANGED <<Blocks, block, ret, hash, netVars, sends>>

\* RestoreFromIPFS without the validation loop.
RestoreFromIPFSUnchecked(c) ==
    /\ Running
    /\ pc[c] = "RestoreFromIPFS"
    /\ \E catOk \in BOOLEAN :
         LET blocks == RetrieveBlockchain(hash[c])
         IN  /\ storeOps' = << StoreCall("Cat", hash[c], catOk) >>
             /\ storeErr' = IF catOk THEN NoError ELSE ErrRestore
             /\ IF catOk
                  THEN Blocks' = blocks
                  ELSE UNCHANGED Blocks
    /\ mutex' = NoTask
    /\ pc' = [pc EXCEPT ![c] = "read"]
    /\ hash' = [hash EXCEPT ![c] = <<>>]
    /\ Silent
    /\ UNCHANGED <<block, ret, netVars, sends>>

\* RestoreFromIPFS: fetch, validate, replace; the deferred Unlock.
RestoreFromIPFS(c) ==
    /\ Running
    /\ pc[c] = "RestoreFromIPFS"
    /\ \E catOk \in BOOLEAN :
         LET blocks == RetrieveBlockchain(hash[c])
         IN  /\ storeOps' = << StoreCall("Cat", hash[c], catOk) >>
             /\ storeErr' = IF catOk THEN NoError ELSE ErrRestore
             /\ IF catOk /\ IsValid(blocks)
                  THEN Blocks' = blocks
                  ELSE UNCHANGED Blocks
    /\ mutex' = NoTask
    /\ pc' = [pc EXCEPT ![c] = "read"]
    /\ hash' = [hash EXCEPT ![c] = <<>>]
    /\ Silent
    /\ UNCHANGED <<block, ret, netVars, sends>>

\* ------------------------------------------------------ the periodic backup
\* BackupToIPFS that returns the hash although Pin failed.
BackupToIPFSUnpinned(t) ==
    /\ Running
    /\ pc[t] = "sleep"
    /\ mutex = NoTask
    /\ LET blob == ChainBlob(Blocks)
       IN  \E addOk \in BOOLEAN, pinOk \in BOOLEAN :
             IF ~addOk
               THEN /\ storeOps' = << StoreCall("Add", blob, FALSE) >>
                    /\ storeErr' = ErrBackup
                    /\ ret' = [ret EXCEPT ![t] = ErrBackup]
                    /\ UNCHANGED <<pc, hash>>
               ELSE /\ storeOps' = << StoreCall("Add", blob, TRUE), StoreCall("Pin", blob, pinOk) >>
                    /\ storeErr' = NoError
                    /\ ret' = [ret EXCEPT ![t] = NoError]
                    /\ hash' = [hash EXCEPT ![t] = blob]
                    /\ pc' = [pc EXCEPT ![t] = "announce"]
    /\ Silent
    /\ UNCHANGED <<chainVars, block, netVars, sends>>

\* One round of the backup goroutine up to the return of BackupToIPFS, which
\* holds the read lock: StoreBlockchain, Pin; on an error the round ends.
BackupToIPFS(t) ==
    /\ Running
    /\ pc[t] = "sleep"
    /\ mutex = NoTask
    /\ LET blob == ChainBlob(Blocks)
       IN  \E addOk \in BOOLEAN, pinOk \in BOOLEAN :
             IF ~addOk
               THEN /\ storeOps' = << StoreCall("Add", blob, FALSE) >>
                    /\ storeErr' = ErrBackup
                    /\ ret' = [ret EXCEPT ![t] = ErrBackup]
                    /\ UNCHANGED <<pc, hash>>
               ELSE /\ storeOps' = << StoreCall("Add", blob, TRUE), StoreCall("Pin", blob, pinOk) >>
                    /\ IF pinOk
                         THEN /\ storeErr' = NoError
                              /\ ret' = [ret EXCEPT ![t] = NoError]
                              /\ hash' = [hash EXCEPT ![t] = blob]
                              /\ pc' = [pc EXCEPT ![t] = "announce"]
                         ELSE /\ storeErr' = ErrBackupPin
                              /\ ret' = [ret EXCEPT ![t] = ErrBackupPin]
                              /\ UNCHANGED <<pc, hash>>
    /\ Silent
    /\ UNCHANGED <<chainVars, block, netVars, sends>>

\* The rest of the round: the hash is broadcast as IPFS_BACKUP.
AnnounceBackup(t) ==
    /\ Running
    /\ pc[t] = "announce"
    /\ BroadcastMessage(BlockchainMessage("IPFS_BACKUP", JString(hash[t]), MyAddress, ""))
    /\ pc' = [pc EXCEPT ![t] = "sleep"]
    /\ hash' = [hash EXCEPT ![t] = <<>>]
    /\ Quiet
    /\ UNCHANGED <<chainVars, block, ret, netVars>>

\* --------------------------------------------------------- specifications
PeerTasks == {"miner"} \cup Conns

\* A run has one connection, dialed or accepted: c starts only if no other
\* connection has.
Alone(c) == \A d \in Conns \ {c} : pc[d] = "none"

\* The peer of peer1.go: the mining loop, the connections and their read
\* loops, the broadcast goroutines and the IPFS node.
Next ==
    \/ MineBlock
    \/ \E t \in PeerTasks : AddBlockLock(t)
    \/ \E t \in PeerTasks : AddBlockCheck(t)
    \/ \E t \in PeerTasks : AddBlockStore(t)
    \/ \E t \in PeerTasks : AddBlockAppend(t)
    \/ \E t \in PeerTasks : BroadcastNewBlock(t)
    \/ SendRun
    \/ \E c \in Conns : Alone(c) /\ DialConnect(c)
    \/ \E c \in Conns : Alone(c) /\ HandleConnection(c)
    \/ \E c \in Conns : ReadLoopEnd(c)
    \/ \E c \in Conns : HandleNewBlock(c)
    \/ \E c \in Conns : HandleNewTx(c)
    \/ \E c \in Conns : HandleBlockchainRequest(c)
    \/ \E c \in Conns : HandleBlockchainResponse(c)
    \/ \E c \in Conns : HandleIPFSBackup(c)
    \/ \E c \in Conns : RestoreLock(c)
    \/ \E c \in Conns : RestoreFromIPFS(c)

Spec == Init /\ [][Next]_vars

\* The exported AddBlock under two concurrent callers: the chain is one built
\* by sequential appends (or still empty), each caller brings one block.
StartChains == {<<>>} \cup {GoodChain(LocalTime, n) : n \in 1..(MaxChain - 1)}

\* The same block with the difficulty field set to 0, hashed at nonce 0.
LowDifficulty(b) == [Unmined(b) EXCEPT !.Difficulty = 0]

CallerBlocks(blocks) ==
    LET prevs == {EmptyString} \cup {blocks[i].Hash : i \in 1..Len(blocks)}
        mined == {CreateBlock(Len(blocks), ts, ValidateTransactionsML(Transactions), prev, Difficulty)
                  : ts \in Times, prev \in prevs}
    IN  UNION {{b, WrongHash(b), Unmined(b), LowDifficulty(b)} : b \in mined}

InitAddBlock ==
    /\ Blocks \in StartChains
    /\ \E arg \in [Callers -> CallerBlocks(Blocks)] :
         block = [t \in Tasks |-> IF t \in Callers THEN arg[t] ELSE NoBlock]
    /\ mutex = NoTask
    /\ pc = [t \in Tasks |-> IF t \in Callers THEN "AddBlockLock" ELSE IF t = "miner" THEN "off" ELSE "none"]
    /\ ret = [t \in Tasks |-> NoError]
    /\ hash = [t \in Conns \cup {Backup} |-> <<>>]
    /\ Peers = EmptyMap
    /\ isConnected = {}
    /\ connOpen = {}
    /\ retryCount = [c \in Dialed |-> 0]
    /\ sends = {}
    /\ decoded = NoDecoded
    /\ written = <<>>
    /\ storeOps = <<>>
    /\ storeErr = NoError

NextAddBlock ==
    \/ \E t \in Callers : AddBlockLock(t)
    \/ \E t \in Callers : AddBlockCheck(t)
    \/ \E t \in Callers : AddBlockStore(t)
    \/ \E t \in Callers : AddBlockAppend(t)

SpecAddBlock == InitAddBlock /\ [][NextAddBlock]_vars

\* The connections alone: the two dialing goroutines with dials that fail or
\* succeed, an accepted connection, and the read loops ending.
NextDial ==
    \/ \E c \in Dialed : DialFail(c)
    \/ \E c \in Dialed : DialConnect(c)
    \/ \E c \in Conns : HandleConnection(c)
    \/ \E c \in Conns \cup Dialed : ReadLoopEnd(c)

SpecDial == Init /\ [][NextDial]_vars

\* The mining loop and its broadcasts with all the connections of the peer,
\* which start and end at any time and send nothing.
NextBroadcast ==
    \/ MineBlock
    \/ AddBlockLock("miner")
    \/ AddBlockCheck("miner")
    \/ AddBlockStore("miner")
    \/ AddBlockAppend("miner")
    \/ BroadcastNewBlock("miner")
    \/ SendRun
    \/ \E c \in Dialed : DialConnect(c)
    \/ \E c \in Conns : HandleConnection(c)
    \/ \E c \in Conns \cup Dialed : ReadLoopEnd(c)

SpecBroadcast == Init /\ [][NextBroadcast]_vars

\* Block.Mine alone, one iteration of its loop at a time, on the blocks
\* CreateBlock hands it: nonce 0, no hash yet, any difficulty.
MineInputs ==
    LET prevs == {EmptyString} \cup
                 {GoodChain(ts, 1)[1].Hash : ts \in Times}
    IN  { [Index |-> index, Timestamp |-> now, Transactions |-> transactions,
           PrevHash |-> prevHash, Hash |-> EmptyString, Nonce |-> 0,
           Difficulty |-> difficulty]
          : index \in 0..(MaxChain - 1), now \in Times,
            transactions \in {<<>>, ValidateTransactionsML(Transactions), Transactions},
            prevHash \in prevs, difficulty \in 0..MaxZeros }

InitMine ==
    /\ Blocks = <<>>
    /\ mutex = NoTask
    /\ \E b \in MineInputs : block = [t \in Tasks |-> IF t = "miner" THEN b ELSE NoBlock]
    /\ pc = [t \in Tasks |-> IF t = "miner" THEN "Mine" ELSE IF t \in Callers THEN "off" ELSE "none"]
    /\ ret = [t \in Tasks |-> NoError]
    /\ hash = [t \in Conns \cup {Backup} |-> <<>>]
    /\ Peers = EmptyMap
    /\ isConnected = {}
    /\ connOpen = {}
    /\ retryCount = [c \in Dialed |-> 0]
    /\ sends = {}
    /\ decoded = NoDecoded
    /\ written = <<>>
    /\ storeOps = <<>>
    /\ storeErr = NoError

\* An iteration that counts the nonce before it tests the hash.
MineStepCountsFirst ==
    /\ pc["miner"] = "Mine"
    /\ LET b == block["miner"]
           h == CalculateHash(b)
       IN  /\ block' = [block EXCEPT !["miner"] = [b EXCEPT !.Hash = h, !.Nonce = b.Nonce + 1]]
           /\ pc' = [pc EXCEPT !["miner"] = IF HasZeroPrefix(h, b.Difficulty) THEN "mined" ELSE "Mine"]
    /\ Quiet
    /\ UNCHANGED <<chainVars, ret, hash, netVars, sends>>

\* One iteration of the loop of Mine: hash, return on the target, else count.
MineStep ==
    /\ pc["miner"] = "Mine"
    /\ LET b == block["miner"]
           h == CalculateHash(b)
       IN  IF HasZeroPrefix(h, b.Difficulty)
             THEN /\ block' = [block EXCEPT !["miner"] = [b EXCEPT !.Hash = h]]
                  /\ pc' = [pc EXCEPT !["miner"] = "mined"]
             ELSE /\ block' = [block EXCEPT !["miner"] = [b EXCEPT !.Hash = h, !.Nonce = b.Nonce + 1]]
                  /\ UNCHANGED pc
    /\ Quiet
    /\ UNCHANGED <<chainVars, ret, hash, netVars, sends>>

NextMine == MineStep

\* A chain built from the genesis block by one caller's AddBlock calls, one
\* after the other, then changed in place and given to IsValid.
Builder == "caller1"

\* The blocks the caller brings when the chain is blocks: made by CreateBlock
\* on the last block, of either difficulty, or damaged.
BuilderBlocks(blocks) ==
    LET mined == {CreateBlock(Len(blocks), now, transactions, Last(blocks).Hash, difficulty)
                  : now \in Times,
                    transactions \in {ValidateTransactionsML(Transactions), Transactions},
                    difficulty \in {0, Difficulty}}
    IN  mined \cup {WrongHash(b) : b \in mined} \cup {Unlinked(b) : b \in mined}

\* The amounts a stored transaction is changed to.
Amounts == {0, 300, 500, 1500}

InitTamper ==
    /\ \E now \in Times : NewBlockchain(now, TRUE, TRUE)
    /\ pc = [t \in Tasks |-> IF t = Builder THEN "returned"
                              ELSE IF t \in Callers \cup {"miner"} THEN "off" ELSE "none"]
    /\ block = [t \in Tasks |-> NoBlock]
    /\ ret = [t \in Tasks |-> NoError]
    /\ hash = [t \in Conns \cup {Backup} |-> <<>>]
    /\ Peers = EmptyMap
    /\ isConnected = {}
    /\ connOpen = {}
    /\ retryCount = [c \in Dialed |-> 0]
    /\ sends = {}
    /\ decoded = NoDecoded
    /\ written = <<>>
    /\ storeOps = <<>>
    /\ storeErr = NoError

\* The caller's next AddBlock call.
CallAddBlock(t) ==
    /\ pc[t] = "returned"
    /\ Len(Blocks) < MaxChain
    /\ \E b \in BuilderBlocks(Blocks) : block' = [block EXCEPT ![t] = b]
    /\ pc' = [pc EXCEPT ![t] = "AddBlockLock"]
    /\ Quiet
    /\ UNCHANGED <<chainVars, ret, hash, netVars, sends>>

\* The amount of one transaction of one stored block is overwritten.
Tamper(t) ==
    /\ pc[t] = "returned"
    /\ \E i \in 1..Len(Blocks) :
         \E j \in 1..Len(Blocks[i].Transactions) :
           \E amount \in Amounts \ {Blocks[i].Transactions[j].Amount} :
             Blocks' = [Blocks EXCEPT ![i].Transactions[j].Amount = amount]
    /\ pc' = [pc EXCEPT ![t] = "tampered"]
    /\ Quiet
    /\ UNCHANGED <<mutex, block, ret, hash, netVars, sends>>

\* A call of IsValid, its result kept as the caller's return value.
IsValidCall(t) ==
    /\ pc[t] \in {"returned", "tampered"}
    /\ mutex = NoTask
    /\ ret' = [ret EXCEPT ![t] = IF IsValid(Blocks) THEN "true" ELSE "false"]
    /\ pc' = [pc EXCEPT ![t] = IF pc[t] = "tampered" THEN "checked" ELSE "returned"]
    /\ Quiet
    /\ UNCHANGED <<chainVars, block, hash, netVars, sends>>

NextTamper ==
    \/ CallAddBlock(Builder)
    \/ AddBlockLock(Builder)
    \/ AddBlockCheck(Builder)
    \/ AddBlockStore(Builder)
    \/ AddBlockAppend(Builder)
    \/ Tamper(Builder)
    \/ IsValidCall(Builder)

SpecTamper == InitTamper /\ [][NextTamper]_vars

\* The backups announced on the two connections, with the mining loop idle.
NextRestore ==
    \/ \E c \in Conns : DialConnect(c)
    \/ \E c \in Conns : HandleConnection(c)
    \/ \E c \in Conns : ReadLoopEnd(c)
    \/ \E c \in Conns : HandleIPFSBackupOf(c, BackupChains)
    \/ \E c \in Conns : RestoreLock(c)
    \/ \E c \in Conns : RestoreFromIPFS(c)

SpecRestore == Init /\ [][NextRestore]_vars

\* The backup goroutine beside an accepted connection on which backups are
\* announced and restored, with the sends of its own announcements; the
\* mining loop is between two rounds.
InitBackup ==
    /\ \E now \in {LocalTime}, putOk \in BOOLEAN, pinOk \in BOOLEAN :
          NewBlockchain(now, putOk, pinOk)
    /\ pc = [t \in Tasks |-> IF t = Backup THEN "sleep"
                              ELSE IF t = "miner" THEN "mine"
                              ELSE IF t \in Callers THEN "off" ELSE "none"]
    /\ block = [t \in Tasks |-> NoBlock]
    /\ ret = [t \in Tasks |-> NoError]
    /\ hash = [t \in Conns \cup {Backup} |-> <<>>]
    /\ Peers = EmptyMap
    /\ isConnected = {}
    /\ connOpen = {}
    /\ retryCount = [c \in Dialed |-> 0]
    /\ sends = {}
    /\ decoded = NoDecoded
    /\ written = <<>>
    /\ storeOps = <<>>
    /\ storeErr = NoError

NextBackup ==
    \/ BackupToIPFS(Backup)
    \/ AnnounceBackup(Backup)
    \/ SendRun
    \/ HandleConnection("in")
    \/ ReadLoopEnd("in")
    \/ HandleIPFSBackup("in")
    \/ RestoreLock("in")
    \/ RestoreFromIPFS("in")

SpecBackup == InitBackup /\ [][NextBackup]_vars

\* One peer of three in a flood: it mines and broadcasts, and on its two
\* connections, one to each other peer, blocks arrive and come back.
NextFlood ==
    \/ MineBlock
    \/ \E t \in PeerTasks : AddBlockLock(t)
    \/ \E t \in PeerTasks : AddBlockCheck(t)
    \/ \E t \in PeerTasks : AddBlockStore(t)
    \/ \E t \in PeerTasks : AddBlockAppend(t)
    \/ \E t \in PeerTasks : BroadcastNewBlock(t)
    \/ SendRun
    \/ \E c \in Conns : DialConnect(c)
    \/ \E c \in Conns : HandleConnection(c)
    \/ \E c \in Conns : HandleNewBlockOf(c, FloodBlocks(Blocks))

SpecFlood == Init /\ [][NextFlood]_vars

SpecMine == InitMine /\ [][NextMine]_vars

\* ------------------------------------------------------------- properties
\* A block that fails one of the two checks of ValidateBlock.
HashMismatch(b) == CalculateHash(b) # b.Hash
TargetUnmet(b) == LeadingZeros(b.Hash) < b.Difficulty

\* A chain with a broken link or a failing block at some position >= 1.
Broken(blocks) ==
    \E i \in 2..Len(blocks) :
        \/ blocks[i].PrevHash # blocks[i - 1].Hash
        \/ HashMismatch(blocks[i])
        \/ TargetUnmet(blocks[i])

StoreErrors == {ErrStore, ErrPin}

\* C1: in every reachable state of the peer, every block of the local chain
\* after the first names the hash of its predecessor as PrevHash, carries the
\* hash of its own contents, and that hash meets the block's target.
C1_ChainPassesIsValid ==
    \A i \in 2..Len(Blocks) :
        /\ Blocks[i].PrevHash = Blocks[i - 1].Hash
        /\ ~HashMismatch(Blocks[i])
        /\ ~TargetUnmet(Blocks[i])

\* A chain restored from a backup of another peer and then extended by the
\* mining loop.
C1_RestoredThenMined ==
    /\ Len(Blocks) >= 3
    /\ Blocks[1].Timestamp = RemoteTime
    /\ Last(Blocks).Timestamp = LocalTime

\* C2: an AddBlock call on a non-empty chain whose block names another
\* PrevHash than the hash of the last block returns "invalid previous hash" and
\* leaves the chain as it is; and the store is asked to add or pin a block
\* only by a call whose block names the hash of the last block.
C2_WrongPrevHashRejected ==
    [][ /\ \A t \in Tasks :
             ( /\ pc[t] = "AddBlockCheck"
               /\ pc'[t] # "AddBlockCheck"
               /\ Len(Blocks) > 0
               /\ block[t].PrevHash # Last(Blocks).Hash )
             => ( /\ ret'[t] = ErrPrevHash
                  /\ pc'[t] = AfterAddBlock(t, ErrPrevHash)
                  /\ Blocks' = Blocks
                  /\ storeOps' = <<>> )
        /\ \A i \in 1..Len(storeOps') :
             storeOps'[i].op \in {"Add", "Pin"}
             => \E t \in Tasks :
                  /\ pc[t] = "AddBlockStore"
                  /\ storeOps'[i].arg = BlockJSON(block[t]).val
                  /\ Len(Blocks) > 0 => block[t].PrevHash = Last(Blocks).Hash
      ]_vars

\* A caller was refused for the PrevHash alone: its block is a mined block.
C2_RefusedForLinkage ==
    \E t \in Callers :
        /\ pc[t] = "returned"
        /\ ret[t] = ErrPrevHash
        /\ Len(Blocks) > 0
        /\ block[t].PrevHash # Last(Blocks).Hash
        /\ ValidateBlock(block[t])

\* C3: an AddBlock call on a non-empty chain whose block names the hash of the
\* last block, but carries a hash that is not the hash of its contents or does
\* not meet the block's target, returns "invalid block proof of work" and
\* leaves the chain as it is.
C3_BadProofOfWorkRejected ==
    [][ \A t \in Tasks :
          ( /\ pc[t] = "AddBlockCheck"
            /\ pc'[t] # "AddBlockCheck"
            /\ Len(Blocks) > 0
            /\ block[t].PrevHash = Last(Blocks).Hash
            /\ (HashMismatch(block[t]) \/ TargetUnmet(block[t])) )
          => ( /\ ret'[t] = ErrProofOfWork
               /\ pc'[t] = AfterAddBlock(t, ErrProofOfWork)
               /\ Blocks' = Blocks
               /\ storeOps' = <<>> )
      ]_vars

\* Two callers were refused for the proof of work, one for a hash that is not
\* the hash of the contents, one for a hash of the contents below the target.
C3_RefusedForEachReason ==
    \E t \in Callers, u \in Callers :
        /\ pc[t] = "returned" /\ pc[u] = "returned"
        /\ ret[t] = ErrProofOfWork /\ ret[u] = ErrProofOfWork
        /\ Len(Blocks) > 0
        /\ block[t].PrevHash = Last(Blocks).Hash
        /\ block[u].PrevHash = Last(Blocks).Hash
        /\ HashMismatch(block[t])
        /\ ~HashMismatch(block[u]) /\ TargetUnmet(block[u])

\* C4: when the store fails to add or to pin a block that passed the linkage
\* and proof-of-work checks, AddBlock returns the store's error and the block
\* is the new last block of the chain.
C4_StoreFailureKeepsBlock ==
    [][ \A t \in Tasks :
          ( /\ pc[t] = "AddBlockStore"
            /\ pc'[t] # "AddBlockStore"
            /\ \E i \in 1..Len(storeOps') : ~storeOps'[i].ok )
          => ( /\ ret'[t] \in StoreErrors
               /\ Blocks' = Append(Blocks, block[t]) )
      ]_vars

\* C5: two callers bring distinct valid blocks that both name the hash of the
\* last block of a chain of n blocks.  Once both calls have returned, neither
\* with an error of the store, one has returned nil and its block is the last
\* of the chain, the other has returned "invalid previous hash", and the chain
\* has n + 1 blocks.
C5_ExactlyOneSucceeds ==
    \A n \in 1..MaxChain :
        ( /\ Len(Blocks) = n
          /\ block["caller1"] # block["caller2"]
          /\ \A t \in Callers : /\ block[t].PrevHash = Last(Blocks).Hash
                                /\ ValidateBlock(block[t]) )
        => []( ( /\ \A t \in Callers : pc[t] = "returned"
                 /\ \A t \in Callers : ret[t] \notin StoreErrors )
               => ( /\ Len(Blocks) = n + 1
                    /\ \E t \in Callers :
                         /\ ret[t] = NoError
                         /\ Last(Blocks) = block[t]
                         /\ \A u \in Callers \ {t} : ret[u] = ErrPrevHash ) )

\* Both calls have returned, one with nil and one with the linkage error, and
\* both blocks are valid and name the hash of the block before the last.
C5_OneWonOneLost ==
    /\ \A t \in Callers : pc[t] = "returned" /\ ValidateBlock(block[t])
    /\ block["caller1"] # block["caller2"]
    /\ Len(Blocks) >= 2
    /\ \A t \in Callers : block[t].PrevHash = Blocks[Len(Blocks) - 1].Hash
    /\ \E t \in Callers : /\ ret[t] = NoError
                          /\ Last(Blocks) = block[t]
                          /\ \A u \in Callers \ {t} : ret[u] = ErrPrevHash

\* C6: the read loop that handles an IPFS_BACKUP message replaces the local
\* chain only by a chain that is longer than the local chain is at that step,
\* and valid.
C6_ReplacedOnlyByLonger ==
    [][ \A c \in Conns :
          (pc[c] = "RestoreFromIPFS" /\ Blocks' # Blocks)
          => ( /\ Blocks' = RetrieveBlockchain(hash[c])
               /\ Len(Blocks') > Len(Blocks)
               /\ ~Broken(Blocks') )
      ]_vars

\* The chain a BLOCKCHAIN_RESPONSE message carries, decoded as blocks.
ChainOfJSON(j) == RetrieveBlockchain(j.val.Blocks)

\* C7: the step that decodes a BLOCKCHAIN_RESPONSE makes the carried chain the
\* local chain if it has more blocks than the local chain and passes IsValid,
\* and leaves the local chain as it is otherwise.
C7_ResponseAdoptedIffLongerAndValid ==
    [][ decoded'.msg.Type = "BLOCKCHAIN_RESPONSE"
        => LET remote == ChainOfJSON(decoded'.msg.Content)
           IN  IF Len(remote) > Len(Blocks) /\ IsValid(remote)
                 THEN Blocks' = remote
                 ELSE Blocks' = Blocks
      ]_vars

\* C8: a step of a read loop that handles a remote chain with a broken link
\* or a failing block (carried by a BLOCKCHAIN_RESPONSE, or fetched for an
\* IPFS_BACKUP announcement and then again by RestoreFromIPFS) leaves the
\* local chain as it is, however long the remote chain.
C8_InvalidRemoteChainIgnored ==
    [][ /\ ( /\ decoded'.msg.Type = "BLOCKCHAIN_RESPONSE"
             /\ Broken(ChainOfJSON(decoded'.msg.Content)) )
           => Blocks' = Blocks
        /\ decoded'.msg.Type = "IPFS_BACKUP" => Blocks' = Blocks
        /\ \A c \in Conns :
             (pc[c] = "RestoreFromIPFS" /\ Broken(RetrieveBlockchain(hash[c])))
             => Blocks' = Blocks
      ]_vars

\* RestoreFromIPFS has just fetched a chain that is longer than the local
\* chain and broken.
C8_BrokenChainFetched ==
    /\ decoded = NoDecoded
    /\ Len(storeOps) = 1
    /\ storeOps[1].op = "Cat"
    /\ storeOps[1].ok
    /\ Broken(RetrieveBlockchain(storeOps[1].arg))
    /\ Len(RetrieveBlockchain(storeOps[1].arg)) > Len(Blocks)

\* C9: a read loop that decodes a NEW_BLOCK message whose block names the hash
\* of the local last block and is valid goes on to add that block to the
\* chain, and the block is then broadcast.
C9_LinkingBlockAdded ==
    [][ ( /\ decoded'.msg.Type = "NEW_BLOCK"
          /\ Len(Blocks) > 0
          /\ BlockOfJSON(decoded'.msg.Content.val).PrevHash = Last(Blocks).Hash
          /\ ValidateBlock(BlockOfJSON(decoded'.msg.Content.val)) )
        => ( /\ pc'[decoded'.conn] = "AddBlockLock"
             /\ block'[decoded'.conn] = BlockOfJSON(decoded'.msg.Content.val) )
      ]_vars

\* C10: the step that decodes a BLOCKCHAIN_REQUEST writes one message, a
\* BLOCKCHAIN_RESPONSE, to the connection the request came from; it carries
\* the local chain (as it is, or as an AddBlock call that is appending makes
\* it); the chain and the peer set stay as they are.
C10_RequestAnsweredWithChain ==
    [][ decoded'.msg.Type = "BLOCKCHAIN_REQUEST"
        => ( /\ Len(written') = 1
             /\ written'[1].conn = decoded'.conn
             /\ written'[1].msg.Type = "BLOCKCHAIN_RESPONSE"
             /\ written'[1].msg.To = decoded'.msg.From
             /\ written'[1].msg.Content \in
                  {ChainJSON(Blocks, Difficulty)} \cup
                  {ChainJSON(Append(Blocks, block[t]), Difficulty)
                     : t \in {u \in Tasks : pc[u] = "AddBlockAppend"}}
             /\ Blocks' = Blocks
             /\ Peers' = Peers /\ isConnected' = isConnected )
      ]_vars

\* C11: the step that decodes a NEW_TRANSACTION message starts a send of a
\* NEW_TRANSACTION message carrying that transaction to every registered
\* connection, whatever the transaction, and leaves the local chain as it is.
C11_TransactionRebroadcast ==
    [][ decoded'.msg.Type = "NEW_TRANSACTION"
        => ( /\ \A a \in DOMAIN Peers :
                  \E s \in sends' \ sends :
                      /\ s.conn = Peers[a]
                      /\ s.msg.Type = "NEW_TRANSACTION"
                      /\ s.msg.Content = decoded'.msg.Content
             /\ Blocks' = Blocks )
      ]_vars

\* A step in which the dialing goroutine of c dials: the dial fails (the
\* count grows) or succeeds (the read loop starts).
Dials(c) ==
    /\ pc[c] = "none"
    /\ (retryCount'[c] # retryCount[c] \/ pc'[c] = "read")

\* C12: a dialing goroutine whose dials have all failed dials at most
\* MaxRetries times: it never dials when MaxRetries dials have failed; and once
\* it has given up it stays so and never dials again.
C12_AtMostMaxRetriesDials ==
    [][ \A c \in Dialed :
          /\ Dials(c) => retryCount[c] < MaxRetries
          /\ pc[c] = "gaveUp" => (pc'[c] = "gaveUp" /\ retryCount'[c] = retryCount[c])
      ]_vars

\* C13: an address is marked connected, with its entry in Peers, in the step
\* of the first dial that succeeds, be it the first or one after up to
\* MaxRetries - 1 failed dials, and in no other step; the read loop of the
\* connection starts in that step; no address is marked connected while its
\* goroutine is still dialing or has given up.
C13_ConnectedUponFirstSuccess ==
    [][ \A c \in Dialed :
          /\ (pc[c] = "none" /\ pc'[c] = "read" /\ retryCount[c] < MaxRetries)
             => ( /\ DialAddress(c) \in isConnected' \ isConnected
                  /\ DialAddress(c) \in DOMAIN Peers'
                  /\ Peers'[DialAddress(c)] = c
                  /\ c \in connOpen'
                  /\ retryCount'[c] = retryCount[c] )
          /\ (DialAddress(c) \in isConnected' \ isConnected)
             => (pc[c] = "none" /\ pc'[c] = "read")
          /\ (DialAddress(c) \in isConnected') => pc'[c] \notin {"none", "gaveUp"}
      ]_vars

\* The third dial to localhost:9002 succeeded after two that failed.
C13_ThirdDialSucceeded ==
    /\ pc["out"] = "read"
    /\ retryCount["out"] = 2
    /\ "localhost:9002" \in isConnected
    /\ Peers["localhost:9002"] = "out"

\* C14: when the read loop of a connection ends, every entry of Peers that
\* holds that connection is removed, and the address of that entry is no
\* longer marked connected.
C14_EndedConnectionRemoved ==
    [][ \A c \in Conns \cup Dialed :
          (pc[c] = "read" /\ pc'[c] = "done")
          => \A a \in DOMAIN Peers :
               Peers[a] = c => (a \notin DOMAIN Peers' /\ a \notin isConnected')
      ]_vars

\* The sends BroadcastMessage starts for a message: one per entry of Peers.
SendsTo(peers, m) == {[conn |-> peers[a], msg |-> m] : a \in DOMAIN peers}

\* C15: a broadcast starts one send per entry of Peers as it is at the call,
\* returns, and leaves Peers as it is; a send that fails on a closed
\* connection removes no other pending send, stops no task and leaves Peers as
\* it is; and whatever sends are pending, each of them can run next, none
\* waiting for another.
C15_SendsIndependent ==
    /\ [][ /\ (pc["miner"] = "broadcast" /\ pc'["miner"] # "broadcast")
              => ( /\ sends' = sends \cup
                        SendsTo(Peers, BlockchainMessage("NEW_BLOCK", BlockJSON(block["miner"]),
                                                         MyAddress, ""))
                   /\ pc'["miner"] = "mine"
                   /\ Peers' = Peers )
           /\ \A s \in sends \ sends' :
                ( /\ sends' = sends \ {s}
                  /\ written' = IF s.conn \in connOpen THEN <<s>> ELSE <<>>
                  /\ pc' = pc
                  /\ Peers' = Peers )
         ]_vars
    /\ [](\A s \in sends : ENABLED SendOne(s))

\* A broadcast has started a send to a connection that is closed and a send of
\* the same message to one that is open.
C15_SendToClosedAndOpen ==
    \E s \in sends, u \in sends :
        /\ s.msg = u.msg
        /\ s.conn \notin connOpen
        /\ u.conn \in connOpen
        /\ Cardinality(DOMAIN Peers) >= 2

\* A task between bc.mutex.Lock() and the deferred Unlock of AddBlock or
\* RestoreFromIPFS.
Locked(t) == pc[t] \in {"AddBlockCheck", "AddBlockStore", "AddBlockAppend", "RestoreFromIPFS"}

C17_MineMeetsTarget ==
    pc["miner"] = "mined"
    => LET b == block["miner"]
       IN  /\ b.Hash = CalculateHash(b)
           /\ LeadingZeros(b.Hash) >= b.Difficulty
           /\ \A n \in 0..(b.Nonce - 1) :
                LeadingZeros(CalculateHash([b EXCEPT !.Nonce = n])) < b.Difficulty
           /\ ValidateBlock(b)
           /\ b.Difficulty = 0 => b.Nonce = 0
           /\ b = Mine([b EXCEPT !.Nonce = 0, !.Hash = EmptyString])

\* Mine has returned after at least two nonces that missed the target.
C17_MinedAfterSearch ==
    /\ pc["miner"] = "mined"
    /\ block["miner"].Nonce >= 2
    /\ block["miner"].Difficulty >= 1

\* C18: on a chain built from genesis by sequential AddBlock calls, IsValid
\* returns true until the amount of a stored transaction is changed, and
\* false once it has been.
C18_TamperedChainInvalid ==
    /\ pc[Builder] = "tampered" => ~IsValid(Blocks)
    /\ pc[Builder] = "checked" => ret[Builder] = "false"
    /\ pc[Builder] \notin {"tampered", "checked"} => IsValid(Blocks) /\ ret[Builder] # "false"

\* IsValid has returned on a full chain whose last block is intact and whose
\* earlier block was changed.
C18_EarlierBlockTampered ==
    /\ pc[Builder] = "checked"
    /\ Len(Blocks) = MaxChain
    /\ ValidateBlock(Last(Blocks))
    /\ Len(Blocks[Len(Blocks) - 1].Transactions) = 2

\* The first block of blocks is a genesis block: index 0, no transactions, no
\* predecessor, stored hash equal to the recomputed one.
WellFormedGenesis(blocks) ==
    /\ blocks # <<>>
    /\ blocks[1].Index = 0
    /\ blocks[1].Transactions = <<>>
    /\ blocks[1].PrevHash = EmptyString
    /\ blocks[1].Hash = CalculateHash(blocks[1])

\* C19: the validation of RestoreFromIPFS accepts the fetched chain only if
\* its first block is a well-formed genesis block, and the local chain is
\* replaced only by such a chain.
C19_GenesisChecked ==
    [][\A c \in Conns :
         pc[c] = "RestoreFromIPFS"
         => LET blocks == RetrieveBlockchain(hash[c])
            IN  /\ IsValid(blocks) => WellFormedGenesis(blocks)
                /\ Blocks' # Blocks => WellFormedGenesis(Blocks')]_vars

\* C20: every block after the first of the local chain has a hash with at
\* least as many leading zeros as the difficulty the chain was created with.
C20_ChainWideDifficulty ==
    \A i \in 2..Len(Blocks) : LeadingZeros(Blocks[i].Hash) >= Difficulty

\* A call of kind op on the IPFS node failed in the step.
Failed(op) == \E i \in 1..Len(storeOps') : storeOps'[i].op = op /\ ~storeOps'[i].ok

\* The step is a call of BackupToIPFS: the backup goroutine is due and the
\* chain is stored by a task other than the mining loop in its AddBlock.
Snapshot ==
    /\ pc[Backup] = "sleep"
    /\ storeOps' # <<>>
    /\ storeOps'[1].op = "Add"
    /\ pc'["miner"] = pc["miner"]

\* The IPFS_BACKUP messages the step hands to BroadcastMessage.
Announced == {s \in sends' \ sends : s.msg.Type = "IPFS_BACKUP"}

\* C21: a step in which Put or Pin of a snapshot, or the fetch of a restore,
\* fails leaves Blocks as it is and reports an error (BackupToIPFS returns it
\* to the backup goroutine, whose round ends without a broadcast); an
\* IPFS_BACKUP is broadcast only for a hash BackupToIPFS returned without error.
C21_StoreFailureLeavesChain ==
    [][/\ Snapshot /\ (Failed("Add") \/ Failed("Pin"))
          => /\ Blocks' = Blocks
             /\ storeErr' \in {ErrBackup, ErrBackupPin}
             /\ ret'[Backup] = storeErr'
             /\ pc'[Backup] = "sleep"
             /\ sends' = sends
       /\ Failed("Cat")
          => /\ Blocks' = Blocks
             /\ storeErr' \in {ErrRetrieve, ErrRestore}
             /\ \A c \in Conns : pc'[c] \notin {"RestoreLock", "RestoreFromIPFS"}
       /\ Announced # {}
          => /\ pc[Backup] = "announce"
             /\ ret[Backup] = NoError
             /\ \A s \in Announced : s.msg.Content = JString(hash[Backup])
       /\ pc'[Backup] = "announce" /\ pc[Backup] # "announce"
          => /\ storeOps' = << StoreCall("Add", ChainBlob(Blocks), TRUE),
                               StoreCall("Pin", ChainBlob(Blocks), TRUE) >>
             /\ hash'[Backup] = ChainBlob(Blocks)]_vars

\* The pin of a snapshot of a restored chain has just failed with a peer
\* connected, and nothing is pending for it.
C21_SnapshotPinFailed ==
    /\ storeErr = ErrBackupPin
    /\ Len(Blocks) >= 2
    /\ connOpen # {}
    /\ DOMAIN Peers # {}
    /\ sends = {}
    /\ pc[Backup] = "sleep"

\* C22: the block the mining loop creates right after a read loop took over a
\* remote chain links to the last block of that chain, whether the chain came
\* in a BLOCKCHAIN_RESPONSE (longer than the local chain and valid) or was
\* restored from an announced backup.
C22_MinerBuildsOnAdopted ==
    [][pc["miner"] = "mine" /\ pc'["miner"] = "AddBlockLock"
       => /\ decoded.msg.Type = "BLOCKCHAIN_RESPONSE"
             => LET remote == ChainOfJSON(decoded.msg.Content)
                IN  Len(remote) > Len(Blocks) /\ IsValid(remote)
                    => block'["miner"].PrevHash = Last(remote).Hash
          /\ \A c \in Conns :
               hash[c] = <<>> /\ storeOps = << StoreCall("Cat", ChainBlob(Blocks), TRUE) >>
               => block'["miner"].PrevHash = Last(RetrieveBlockchain(storeOps[1].arg)).Hash]_vars

\* The NEW_BLOCK messages the step hands to BroadcastMessage.
NewBlockSends == {s \in sends' \ sends : s.msg.Type = "NEW_BLOCK"}

\* C23: the mining loop reaches its broadcast only by the step of AddBlock that
\* appends its block and returns nil, and broadcasts that block; the step in
\* which its AddBlock returns an error leaves the chain and the pending sends
\* as they are and takes the loop back to its start.
C23_BroadcastOnlyAfterAppend ==
    [][/\ pc'["miner"] = "broadcast" /\ pc["miner"] # "broadcast"
          => /\ pc["miner"] = "AddBlockAppend"
             /\ Blocks' = Append(Blocks, block["miner"])
             /\ ret'["miner"] = NoError
       /\ pc["miner"] = "broadcast"
          => /\ ret["miner"] = NoError
             /\ pc'["miner"] = "broadcast" => block'["miner"] = block["miner"]
       /\ NewBlockSends # {}
          => /\ pc["miner"] = "broadcast"
             /\ \A s \in NewBlockSends : s.msg.Content = BlockJSON(block["miner"])
       /\ /\ pc["miner"] \in {"AddBlockCheck", "AddBlockStore"}
          /\ pc'["miner"] \notin {"AddBlockCheck", "AddBlockStore", "AddBlockAppend"}
          => /\ ret'["miner"] # NoError
             /\ pc'["miner"] = "mine"
             /\ Blocks' = Blocks
             /\ sends' = sends]_vars

\* The mining loop is back at its start after AddBlock refused its block for
\* its linkage, a peer is registered and nothing is pending.
C23_MinedBlockRefused ==
    /\ pc["miner"] = "mine"
    /\ ret["miner"] = ErrPrevHash
    /\ DOMAIN Peers # {}
    /\ sends = {}
    /\ \A i \in 1..Len(Blocks) : Blocks[i] # block["miner"]

\* C24: the block at position i of the local chain, counted from 0, has
\* Index i.
C24_IndexIsPosition ==
    \A i \in 1..Len(Blocks) : Blocks[i].Index = i - 1

\* C25: no step makes the local chain shorter.
C25_LengthNeverDecreases ==
    [][Len(Blocks') >= Len(Blocks)]_vars

\* C26: an address has an entry in Peers if and only if isConnected is true
\* for it.
C26_PeersAgreeWithIsConnected ==
    DOMAIN Peers = isConnected

\* Both kinds of connection have ended: the accepted one is gone from both
\* maps, the dialed one is still in both under its configured address.
C26_BothKindsEnded ==
    /\ pc["in"] = "done"
    /\ pc["out"] = "done"
    /\ pc["out3"] = "read"
    /\ DialAddress("out") \in isConnected
    /\ RemoteAddr("in") \notin isConnected

\* The block a NEW_BLOCK message carries.
BlockOfMessage(m) == BlockOfJSON(m.Content.val)

\* C27: no block is twice in the chain of a peer; a task reaches its
\* broadcast only by the step that appends its block, and broadcasts that
\* block and leaves the broadcast; and the step that decodes a NEW_BLOCK whose
\* block is in the chain already changes neither the chain nor the pending
\* sends, and the handler then does not get to an append.
C27_FloodQuiesces ==
    /\ [](\A i \in 1..Len(Blocks) : \A j \in 1..Len(Blocks) : Blocks[i] = Blocks[j] => i = j)
    /\ [](\A c \in Conns :
            pc[c] \in {"AddBlockStore", "AddBlockAppend", "broadcast"}
            => \A i \in 1..Len(Blocks) : Blocks[i] # block[c] \/ pc[c] = "broadcast")
    /\ [][/\ \A t \in PeerTasks :
               pc'[t] = "broadcast" /\ pc[t] # "broadcast"
               => pc[t] = "AddBlockAppend" /\ Blocks' = Append(Blocks, block[t])
          /\ NewBlockSends # {}
             => \E t \in PeerTasks :
                  /\ pc[t] = "broadcast"
                  /\ pc'[t] # "broadcast"
                  /\ sends' \ sends = SendsTo(Peers, BlockchainMessage("NEW_BLOCK", BlockJSON(block[t]), MyAddress, ""))
          /\ /\ decoded'.msg.Type = "NEW_BLOCK"
             /\ \E i \in 1..Len(Blocks) : Blocks[i] = BlockOfMessage(decoded'.msg)
             => /\ Blocks' = Blocks
                /\ sends' = sends
                /\ pc'[decoded'.conn] \in {"read", "AddBlockLock"}]_vars

\* The peer has mined and broadcast a block, both sends have run, and the
\* block has just come back on a connection; nothing is pending.
C27_BlockCameBack ==
    /\ decoded.msg.Type = "NEW_BLOCK"
    /\ Len(Blocks) >= 2
    /\ BlockOfMessage(decoded.msg) = Last(Blocks)
    /\ pc["miner"] = "mine"
    /\ ret["miner"] = NoError
    /\ sends = {}
    /\ connOpen = Conns
    /\ \A c \in Conns : pc[c] = "read"

====
